---- MODULE Spec2Model ----
(***************************************************************************)
(* Model of the sample scripts of multimodal-rag-samples:                  *)
(*   extract_pdf.py       main(file_path, extractors, output_dir)          *)
(*   simple_gemini_ocr.py process_files(directory_path) and its __main__   *)
(*                                                                         *)
(* One behaviour is one invocation of one of the two scripts (extract_pdf  *)
(* may be re-invoked on the same arguments).  The file system, the open    *)
(* file handles, standard output and every local variable that decides     *)
(* control flow are state; every statement that touches them is an action. *)
(*                                                                         *)
(* Paths are sequences of tokens.  The separators "/" and "." are always   *)
(* tokens of their own, every other token is a piece of text holding no    *)
(* separator, so concatenating token sequences is concatenating strings:   *)
(*   "out/a.pdf"  is  <<"out", "/", "a", ".", "pdf">>.                      *)
(***************************************************************************)
EXTENDS Integers, Sequences, FiniteSets, TLC

\* ---------------------------------------------------------------- bounds
MaxPages == 3
MaxRuns == 2
MaxTime == 1

\* ------------------------------------------------------- python values
PyNone == [tag |-> "None", val |-> <<>>]
PyList(s) == [tag |-> "list", val |-> s]
PyTuple(a, b) == [tag |-> "tuple", val |-> <<a, b>>]

\* `a, b = v` raises unless v is an iterable of exactly two items.
CanUnpack2(v) == v.tag \in {"list", "tuple"} /\ Len(v.val) = 2

\* A wrapper that passes a None result through without pairing it.
measure_time_buggy(result, execution_time) ==
    IF result.tag = "None" THEN PyNone ELSE PyTuple(result, execution_time)

\* measure_time.wrapper: the pair it returns for the wrapped function's result.
measure_time(result, execution_time) == PyTuple(result, execution_time)

\* simple_gemini_ocr.py's own copy of the decorator.
ocr_measure_time(result, execution_time) == PyTuple(result, execution_time)

\* ----------------------------------------------------------- os.path
SEP == "/"
DOT == "."

RECURSIVE RFind(_, _, _)
\* str.rfind on tokens: the last index <= k holding token c, 0 when there is none.
RFind(p, c, k) == IF k = 0 THEN 0 ELSE IF p[k] = c THEN k ELSE RFind(p, c, k - 1)

EndsWith(p, suffix) ==
    /\ Len(p) >= Len(suffix)
    /\ SubSeq(p, Len(p) - Len(suffix) + 1, Len(p)) = suffix

basename(p) == SubSeq(p, RFind(p, SEP, Len(p)) + 1, Len(p))

\* posixpath.splitext: the extension starts at the last dot after the last
\* separator, unless only dots precede it in the file name.
splitext(p) ==
    LET sepIndex == RFind(p, SEP, Len(p))
        dotIndex == RFind(p, DOT, Len(p))
    IN  IF /\ dotIndex > sepIndex
           /\ \E k \in (sepIndex + 1)..(dotIndex - 1) : p[k] # DOT
        THEN <<SubSeq(p, 1, dotIndex - 1), SubSeq(p, dotIndex, Len(p))>>
        ELSE <<p, <<>>>>

join(a, b) ==
    IF b # <<>> /\ b[1] = SEP THEN b
    ELSE IF a = <<>> \/ a[Len(a)] = SEP THEN a \o b
    ELSE a \o <<SEP>> \o b

\* A directory path without its trailing separator.
NormDir(p) == IF Len(p) > 1 /\ p[Len(p)] = SEP THEN SubSeq(p, 1, Len(p) - 1) ELSE p

\* The directories os.makedirs(p, exist_ok=True) leaves existing: p and every
\* ancestor of p.
MadeDirs(p) ==
    LET q == NormDir(p)
    IN  {q} \cup {SubSeq(q, 1, k - 1) : k \in {j \in 2..Len(q) : q[j] = SEP}}

makedirs(f, p) == [f EXCEPT !.dirs = @ \cup MadeDirs(p)]

exists(f, p) == NormDir(p) \in f.dirs \/ p \in DOMAIN f.files

\* open(path, 'a'): the file exists afterwards, what it held is kept.
OpenAppend(f, path) ==
    [f EXCEPT !.files = [q \in DOMAIN @ \cup {path} |->
                            IF q \in DOMAIN @ THEN @[q] ELSE <<>>]]

\* open(path, 'w'): the file exists and is empty afterwards.
OpenWrite(f, path) ==
    [f EXCEPT !.files = [q \in DOMAIN @ \cup {path} |->
                            IF q = path THEN <<>> ELSE @[q]]]

\* file.write(data) on an open handle.
Write(f, path, data) == [f EXCEPT !.files[path] = Append(@, data)]

Digits == <<"1", "2", "3", "4", "5", "6", "7", "8", "9">>
RECURSIVE str(_)
\* str(i) of a positive integer, as one token per digit.
str(i) ==
    IF i < 10 THEN <<Digits[i]>>
    ELSE str(i \div 10) \o (IF i % 10 = 0 THEN <<"0">> ELSE <<Digits[i % 10]>>)

\* ------------------------------------------------- extract_pdf.py: data
\* main's expansion of ['all'].
AllExtractors == <<"PyPDF2", "PDFPlumber", "Textract">>

\* main's extractor_classes: registered name -> class name.
extractor_classes ==
    [n \in {"PyPDF2", "PDFPlumber"} |->
        IF n = "PyPDF2" THEN "PyPDF2Extractor" ELSE "PDFPlumberExtractor"]

\* The library each class reads the PDF with.
Library(cls) == IF cls = "PyPDF2Extractor" THEN "PyPDF2" ELSE "pdfplumber"

\* What a library extracts from page k of the input: a value that depends on
\* the library and the page only (the libraries are deterministic).
PageText(lib, k) == <<lib, k>>

\* A process_name that is the base class's for every extractor.
ConstantProcessName(cls) == "PDFExtractor"

\* PDFExtractor.save_sections: the process_name it passes on,
\* self.__class__.__name__.
ClassProcessName(cls) == cls

\* save_sections_to_dirs: the directory of all sections of a file.
parent_dir(path, out) == join(out, basename(splitext(path)[1]))

\* save_sections_to_dirs: the directory of section i.
section_dir(path, out, n) == join(parent_dir(path, out), str(n))

\* The flat naming of the commented-out code of main, lines 216-218.
FlatSectionFile(path, out, n, name, ext) ==
    join(out, basename(splitext(path)[1]) \o <<"_", name, DOT, ext>>)

\* save_sections_to_dirs: section_file, with the suffix save_func adds.
SectionFile(path, out, n, name, ext) ==
    join(section_dir(path, out, n), <<"section", "_">> \o str(n) \o <<"_", name>>)
        \o <<DOT, ext>>

\* An accumulation that puts the newest section first.
PrependSection(acc, section) == <<section>> \o acc

\* The accumulation step of both extraction loops: sections.append(section).
AppendSection(acc, section) == Append(acc, section)

\* -------------------------------------------- simple_gemini_ocr.py: data
\* A markdown path that keeps the .txt extension.
SuffixedMdPath(path) == path \o <<DOT, "md">>

\* process_files: the path of the markdown file written for a text file.
MdPath(path) == splitext(path)[1] \o <<DOT, "md">>

IsPng(name) == EndsWith(name, <<DOT, "png">>)
IsTxt(name) == EndsWith(name, <<DOT, "txt">>)

\* The file names of directory d, as os.listdir returns them.
listdir(f, d) ==
    {SubSeq(p, Len(d) + 2, Len(p)) :
        p \in {q \in DOMAIN f.files :
                 /\ Len(q) > Len(d) + 1
                 /\ SubSeq(q, 1, Len(d) + 1) = d \o <<SEP>>
                 /\ RFind(q, SEP, Len(q)) = Len(d) + 1}}

\* ------------------------------------------------------- input spaces
FilePaths == {<<"a", DOT, "pdf">>, <<"in", SEP, "a", DOT, "b", DOT, "pdf">>}
OutputDirs == {<<DOT>>, <<"out">>, <<"o", SEP, "p", SEP>>}
ExtractorArgs ==
    { <<"all">>, <<"PyPDF2">>, <<"PDFPlumber", "PyPDF2">>,
      <<"PyPDF2", "PDFPlumber">>, <<"Foo">>, <<"Foo", "PyPDF2">>,
      <<"PyPDF2", "Textract">>, <<"PyPDF2", "PyPDF2">>, <<"Textract", "Foo">> }

OcrDir == <<"d">>
OcrNames ==
    { <<"a", DOT, "txt">>, <<"b", DOT, "c", DOT, "txt">>, <<DOT, "txt">>,
      <<"p", DOT, "png">>, <<"q", DOT, "png">>, <<"a", DOT, "md">> }

VARIABLES
    script,          \* which script this invocation runs
    pc,              \* the statement about to execute
    fs,              \* the file system: [dirs, files: path -> data written]
    handles,         \* paths of the currently open file handles
    stdout,          \* what has been printed
    trace,           \* calls made so far in this run
    written,         \* paths opened for writing in this run
    failure,         \* the fault that ended the run, "none" otherwise
    result,          \* value returned by the wrapped function
    ret,             \* value returned by measure_time's wrapper
    text,            \* the caller's first unpacked value
    execution_time,  \* the caller's second unpacked value
    file_path, extractors, output_dir, numPages,     \* main's arguments, the PDF
    exts, idx, extractor,                            \* main's locals
    sections, page,                                  \* extract_text's locals
    saving, i,                                       \* save_sections_to_dirs
    runs, fsStart, fsFirst, fsAtCall,                \* history of the runs
    directory, image_path, todo, filename, file_content, response,
    uploads, generations                             \* process_files

ioVars == <<fs, handles, stdout, trace, written, failure>>
retVars == <<result, ret, text, execution_time>>
argVars == <<script, file_path, extractors, output_dir, numPages>>
mainVars == <<exts, idx, extractor>>
loopVars == <<sections, page>>
saveVars == <<saving, i>>
histVars == <<runs, fsStart, fsFirst, fsAtCall>>
ocrVars == <<directory, image_path, todo, filename, file_content, response,
             uploads, generations>>
vars == <<pc, ioVars, retVars, argVars, mainVars, loopVars, saveVars, histVars,
          ocrVars>>

NoPath == <<>>
NoSaving == [sections |-> <<>>, ext |-> "", process_name |-> ""]

\* What never differs between the initial states.
InitCommon ==
    /\ handles = {} /\ stdout = <<>> /\ trace = <<>> /\ written = {}
    /\ failure = "none"
    /\ result = PyNone /\ ret = PyNone /\ text = PyNone /\ execution_time = 0
    /\ exts = <<>> /\ idx = 0 /\ extractor = "none"
    /\ sections = <<>> /\ page = 0
    /\ saving = NoSaving /\ i = 0
    /\ runs = 1
    /\ image_path = NoPath /\ todo = {} /\ filename = NoPath
    /\ file_content = <<>> /\ response = <<>>
    /\ uploads = <<>> /\ generations = <<>>

\* python extract_pdf.py <file_path> --extractors=... --output_dir=...
\* on an existing PDF; the output directory is empty or does not exist yet.
InitExtract ==
    /\ script = "extract_pdf" /\ pc = "main"
    /\ file_path \in FilePaths
    /\ output_dir \in OutputDirs
    /\ extractors \in ExtractorArgs
    /\ numPages \in 0..MaxPages
    /\ \E made \in BOOLEAN :
         fs = [dirs |-> ({<<DOT>>} \cup (MadeDirs(file_path) \ {file_path}))
                          \cup (IF made THEN MadeDirs(output_dir) ELSE {}),
               files |-> [q \in {file_path} |-> <<<<"pdf", numPages>>>>]]
    /\ fsStart = fs /\ fsFirst = fs /\ fsAtCall = fs
    /\ directory = NoPath

\* python simple_gemini_ocr.py <directory_path> on a directory of files.
InitOcr ==
    /\ script = "gemini_ocr" /\ pc = "ocr_main"
    /\ file_path = NoPath /\ output_dir = NoPath /\ extractors = <<>>
    /\ numPages = 0
    /\ directory = OcrDir
    /\ \E names \in SUBSET OcrNames :
         fs = [dirs |-> {<<DOT>>, OcrDir},
               files |-> [q \in {join(OcrDir, n) : n \in names} |->
                             <<<<"data", q>>>>]]
    /\ fsStart = fs /\ fsFirst = fs /\ fsAtCall = fs

Init == InitCommon /\ (InitExtract \/ InitOcr)

Call(ev, who) == [ev |-> ev, who |-> who]
Raise(what) == pc' = "crashed" /\ failure' = what

\* ------------------------------------------------ extract_pdf.py: main
\* main, line 197: ['all'] becomes the built-in list.
main_expand ==
    /\ pc = "main"
    /\ exts' = IF extractors = <<"all">> THEN AllExtractors ELSE extractors
    /\ idx' = 1
    /\ pc' = "for"
    /\ UNCHANGED <<ioVars, retVars, argVars, extractor, loopVars, saveVars,
                   histVars, ocrVars>>

\* main, lines 206-210: a registered name is instantiated and its
\* extract_text, which is measure_time's wrapper, is called.
main_dispatch ==
    /\ pc = "for" /\ idx <= Len(exts)
    /\ exts[idx] \in DOMAIN extractor_classes
    /\ extractor' = extractor_classes[exts[idx]]
    /\ trace' = Append(trace, Call("wrapper", extractor'))
    /\ fsAtCall' = fs
    /\ pc' = "wrapper"
    /\ UNCHANGED <<fs, handles, stdout, written, failure, retVars, argVars, exts,
                   idx, loopVars, saveVars, runs, fsStart, fsFirst, ocrVars>>

\* A lookup extractor_classes[extractor_name] instead of .get: KeyError.
main_unknown_raises ==
    /\ pc = "for" /\ idx <= Len(exts)
    /\ exts[idx] \notin DOMAIN extractor_classes
    /\ Raise("KeyError")
    /\ UNCHANGED <<fs, handles, stdout, trace, written, retVars, argVars,
                   mainVars, loopVars, saveVars, histVars, ocrVars>>

\* main, lines 219-220: an unregistered name is reported and skipped.
main_unknown ==
    /\ pc = "for" /\ idx <= Len(exts)
    /\ exts[idx] \notin DOMAIN extractor_classes
    /\ stdout' = Append(stdout, <<"Unknown extractor", exts[idx]>>)
    /\ idx' = idx + 1
    /\ UNCHANGED <<pc, fs, handles, trace, written, failure, retVars, argVars,
                   exts, extractor, loopVars, saveVars, histVars, ocrVars>>

\* measure_time.wrapper, lines 36-37: the one call of the wrapped function.
wrapper_call ==
    /\ pc = "wrapper"
    /\ trace' = Append(trace, Call("extract_text", extractor))
    /\ pc' = "open"
    /\ UNCHANGED <<fs, handles, stdout, written, failure, retVars, argVars,
                   mainVars, loopVars, saveVars, histVars, ocrVars>>

\* extract_text, lines 115-117 and 136-137: the PDF is opened.
pdf_open ==
    /\ pc = "open"
    /\ handles' = handles \cup {file_path}
    /\ sections' = <<>>
    /\ page' = 1
    /\ pc' = "read"
    /\ UNCHANGED <<fs, stdout, trace, written, failure, retVars, argVars,
                   mainVars, saveVars, histVars, ocrVars>>

\* main with the call wrapped in a handler that goes on to the next name.
pdf_open_fails_handled ==
    /\ pc = "open"
    /\ failure' = "open"
    /\ idx' = idx + 1
    /\ pc' = "for"
    /\ UNCHANGED <<fs, handles, stdout, trace, written, retVars, argVars, exts,
                   extractor, loopVars, saveVars, histVars, ocrVars>>

\* open, PdfReader or pdfplumber.open raises: nothing catches it.
pdf_open_fails ==
    /\ pc = "open"
    /\ Raise("open")
    /\ UNCHANGED <<fs, handles, stdout, trace, written, retVars, argVars,
                   mainVars, loopVars, saveVars, histVars, ocrVars>>

\* extract_text, lines 118-120 and 138-140: one iteration of the page loop.
read_page ==
    /\ pc = "read" /\ page <= numPages
    /\ sections' = AppendSection(sections, PageText(Library(extractor), page))
    /\ page' = page + 1
    /\ UNCHANGED <<pc, ioVars, retVars, argVars, mainVars, saveVars, histVars,
                   ocrVars>>

\* Reading the page list or a page raises: the with block closes the PDF
\* and the exception leaves extract_text, the wrapper and main.
read_page_fails ==
    /\ pc = "read" /\ page <= numPages + 1
    /\ handles' = handles \ {file_path}
    /\ Raise("parse")
    /\ UNCHANGED <<fs, stdout, trace, written, retVars, argVars, mainVars,
                   loopVars, saveVars, histVars, ocrVars>>

\* save_sections called before the with block is left.
pdf_keep_open ==
    /\ pc = "read" /\ page > numPages
    /\ pc' = "save_sections"
    /\ UNCHANGED <<ioVars, retVars, argVars, mainVars, loopVars, saveVars,
                   histVars, ocrVars>>

\* extract_text: the loop is over and the with block closes the PDF.
pdf_close ==
    /\ pc = "read" /\ page > numPages
    /\ handles' = handles \ {file_path}
    /\ pc' = "save_sections"
    /\ UNCHANGED <<fs, stdout, trace, written, failure, retVars, argVars,
                   mainVars, loopVars, saveVars, histVars, ocrVars>>

\* save_sections, line 101, and save_sections_to_dirs, lines 57-59.
save_sections ==
    /\ pc = "save_sections"
    /\ saving' = [sections |-> sections, ext |-> "txt",
                  process_name |-> ClassProcessName(extractor)]
    /\ fs' = makedirs(fs, parent_dir(file_path, output_dir))
    /\ i' = 1
    /\ pc' = "save_loop"
    /\ UNCHANGED <<handles, stdout, trace, written, failure, retVars, argVars,
                   mainVars, loopVars, histVars, ocrVars>>

\* save_sections_to_dirs, lines 61-65, up to save_func opening the file.
save_open ==
    /\ pc = "save_loop" /\ i <= Len(saving.sections)
    /\ LET f == SectionFile(file_path, output_dir, i, saving.process_name,
                            saving.ext)
       IN  /\ fs' = OpenWrite(makedirs(fs, section_dir(file_path, output_dir, i)),
                              f)
           /\ handles' = handles \cup {f}
           /\ written' = written \cup {f}
    /\ pc' = "save_write"
    /\ UNCHANGED <<stdout, trace, failure, retVars, argVars, mainVars, loopVars,
                   saveVars, histVars, ocrVars>>

\* save_text, lines 98-99, and save_image, line 167: write and close.
save_write ==
    /\ pc = "save_write"
    /\ LET f == SectionFile(file_path, output_dir, i, saving.process_name,
                            saving.ext)
       IN  /\ fs' = Write(fs, f, saving.sections[i])
           /\ handles' = handles \ {f}
    /\ i' = i + 1
    /\ pc' = "save_loop"
    /\ UNCHANGED <<stdout, trace, written, failure, retVars, argVars, mainVars,
                   loopVars, saving, histVars, ocrVars>>

\* extract_text returns its sections (lines 122, 142) and the wrapper
\* returns them with the time it measured (lines 38-40).
extract_return ==
    /\ pc = "save_loop" /\ i > Len(saving.sections) /\ saving.ext = "txt"
    /\ result' = PyList(sections)
    /\ \E t \in 0..MaxTime : ret' = measure_time(result', t)
    /\ pc' = "unpack"
    /\ UNCHANGED <<ioVars, text, execution_time, argVars, mainVars, loopVars,
                   saveVars, histVars, ocrVars>>

\* main, lines 210-214: the pair is unpacked and reported.
main_unpack ==
    /\ pc = "unpack"
    /\ IF CanUnpack2(ret)
       THEN /\ text' = ret.val[1]
            /\ execution_time' = ret.val[2]
            /\ stdout' = stdout \o << <<"Extractor", exts[idx]>>,
                                      <<"Extracted Text", exts[idx]>>,
                                      <<"Execution Time", exts[idx]>>,
                                      <<"---", exts[idx]>> >>
            /\ idx' = idx + 1
            /\ pc' = "for"
            /\ UNCHANGED failure
       ELSE /\ Raise("unpack")
            /\ UNCHANGED <<text, execution_time, stdout, idx>>
    /\ UNCHANGED <<fs, handles, trace, written, result, ret, argVars, exts,
                   extractor, loopVars, saveVars, histVars, ocrVars>>

\* main, line 222, and convert_pdf_to_images, lines 154-155.
convert_pdf_to_images ==
    /\ pc = "for" /\ idx > Len(exts)
    /\ trace' = Append(trace, Call("convert_pdf_to_images", "pdf2image"))
    /\ fs' = IF exists(fs, output_dir) THEN fs ELSE makedirs(fs, output_dir)
    /\ pc' = "convert_from_path"
    /\ UNCHANGED <<handles, stdout, written, failure, retVars, argVars,
                   mainVars, loopVars, saveVars, histVars, ocrVars>>

\* convert_pdf_to_images, lines 158-169, and save_sections_to_dirs, 57-59.
convert_from_path ==
    /\ pc = "convert_from_path"
    /\ saving' = [sections |-> [k \in 1..numPages |-> PageText("pdf2image", k)],
                  ext |-> "png", process_name |-> "pdf2image"]
    /\ fs' = makedirs(fs, parent_dir(file_path, output_dir))
    /\ i' = 1
    /\ pc' = "save_loop"
    /\ UNCHANGED <<handles, stdout, trace, written, failure, retVars, argVars,
                   mainVars, loopVars, histVars, ocrVars>>

\* convert_from_path raises: nothing catches it.
convert_from_path_fails ==
    /\ pc = "convert_from_path"
    /\ Raise("convert")
    /\ UNCHANGED <<fs, handles, stdout, trace, written, retVars, argVars,
                   mainVars, loopVars, saveVars, histVars, ocrVars>>

\* convert_pdf_to_images and main return.
main_return ==
    /\ pc = "save_loop" /\ i > Len(saving.sections) /\ saving.ext = "png"
    /\ pc' = "done"
    /\ UNCHANGED <<ioVars, retVars, argVars, mainVars, loopVars, saveVars,
                   histVars, ocrVars>>

\* The script is invoked again with the same arguments: a new process on the
\* file system the last run left.
rerun ==
    /\ pc = "done" /\ script = "extract_pdf" /\ runs < MaxRuns
    /\ runs' = runs + 1
    /\ fsFirst' = IF runs = 1 THEN fs ELSE fsFirst
    /\ fsStart' = fs
    /\ fsAtCall' = fs
    /\ pc' = "main"
    /\ stdout' = <<>> /\ trace' = <<>> /\ written' = {}
    /\ result' = PyNone /\ ret' = PyNone /\ text' = PyNone
    /\ execution_time' = 0
    /\ exts' = <<>> /\ idx' = 0 /\ extractor' = "none"
    /\ sections' = <<>> /\ page' = 0
    /\ saving' = NoSaving /\ i' = 0
    /\ UNCHANGED <<fs, handles, failure, argVars, ocrVars>>

\* ------------------------------------------- simple_gemini_ocr.py
\* __main__, line 74: process_files, which is measure_time's wrapper, is called.
ocr_main ==
    /\ pc = "ocr_main"
    /\ trace' = Append(trace, Call("wrapper", "process_files"))
    /\ pc' = "ocr_wrapper"
    /\ UNCHANGED <<fs, handles, stdout, written, failure, retVars, argVars,
                   mainVars, loopVars, saveVars, histVars, ocrVars>>

\* measure_time.wrapper, lines 17-18: the one call of process_files.
ocr_wrapper_call ==
    /\ pc = "ocr_wrapper"
    /\ trace' = Append(trace, Call("process_files", "process_files"))
    /\ pc' = "find_image"
    /\ UNCHANGED <<fs, handles, stdout, written, failure, retVars, argVars,
                   mainVars, loopVars, saveVars, histVars, ocrVars>>

\* find_image_file, lines 26-28: the first .png of the listing, whose order
\* os.listdir leaves open.
find_image_file ==
    /\ pc = "find_image"
    /\ \E n \in listdir(fs, directory) :
         /\ IsPng(n)
         /\ image_path' = join(directory, n)
    /\ pc' = "list_txt"
    /\ UNCHANGED <<ioVars, retVars, argVars, mainVars, loopVars, saveVars,
                   histVars, directory, todo, filename, file_content, response,
                   uploads, generations>>

\* find_image_file, line 29, and process_files, lines 34-36.
no_image_file ==
    /\ pc = "find_image"
    /\ \A n \in listdir(fs, directory) : ~IsPng(n)
    /\ stdout' = Append(stdout, <<"Error: No PNG file found in the directory.">>)
    /\ result' = PyNone
    /\ pc' = "ocr_return"
    /\ UNCHANGED <<fs, handles, trace, written, failure, ret, text,
                   execution_time, argVars, mainVars, loopVars, saveVars,
                   histVars, ocrVars>>

\* process_files, lines 39-40: the directory is listed once; its .txt names
\* are what the loop will visit.
list_txt ==
    /\ pc = "list_txt"
    /\ todo' = {n \in listdir(fs, directory) : IsTxt(n)}
    /\ pc' = "ocr_loop"
    /\ UNCHANGED <<ioVars, retVars, argVars, mainVars, loopVars, saveVars,
                   histVars, directory, image_path, filename, file_content,
                   response, uploads, generations>>

\* process_files, lines 39-41: the next .txt name of the listing.
next_txt ==
    /\ pc = "ocr_loop"
    /\ \E n \in todo :
         /\ filename' = n
         /\ todo' = todo \ {n}
    /\ pc' = "upload"
    /\ UNCHANGED <<ioVars, retVars, argVars, mainVars, loopVars, saveVars,
                   histVars, directory, image_path, file_content, response,
                   uploads, generations>>

\* process_files, line 44.
upload_file ==
    /\ pc = "upload"
    /\ uploads' = Append(uploads, [path |-> image_path, for |-> filename])
    /\ pc' = "read_txt"
    /\ UNCHANGED <<ioVars, retVars, argVars, mainVars, loopVars, saveVars,
                   histVars, directory, image_path, todo, filename, file_content,
                   response, generations>>

\* upload_file raises: nothing catches it.
upload_file_fails ==
    /\ pc = "upload"
    /\ Raise("upload")
    /\ UNCHANGED <<fs, handles, stdout, trace, written, retVars, argVars,
                   mainVars, loopVars, saveVars, histVars, ocrVars>>

\* process_files, lines 47-48: the text file is opened, read and closed.
read_txt ==
    /\ pc = "read_txt"
    /\ file_content' = fs.files[join(directory, filename)]
    /\ pc' = "generate"
    /\ UNCHANGED <<ioVars, retVars, argVars, mainVars, loopVars, saveVars,
                   histVars, directory, image_path, todo, filename, response,
                   uploads, generations>>

\* process_files, lines 50-52.
generate_content ==
    /\ pc = "generate"
    /\ generations' = Append(generations,
                             [prompt |-> file_content, image |-> image_path,
                              for |-> filename])
    /\ response' = <<"markdown of", file_content>>
    /\ pc' = "write_md"
    /\ UNCHANGED <<ioVars, retVars, argVars, mainVars, loopVars, saveVars,
                   histVars, directory, image_path, todo, filename, file_content,
                   uploads>>

\* generate_content raises: nothing catches it.
generate_content_fails ==
    /\ pc = "generate"
    /\ Raise("generate")
    /\ UNCHANGED <<fs, handles, stdout, trace, written, retVars, argVars,
                   mainVars, loopVars, saveVars, histVars, ocrVars>>

\* process_files, lines 55-59: the .md file is opened, written and closed.
write_md ==
    /\ pc = "write_md"
    /\ LET md == MdPath(join(directory, filename))
       IN  /\ fs' = Write(OpenWrite(fs, md), md, response)
           /\ written' = written \cup {md}
    /\ stdout' = Append(stdout, <<"Processed", filename>>)
    /\ pc' = "ocr_loop"
    /\ UNCHANGED <<handles, trace, failure, retVars, argVars, mainVars,
                   loopVars, saveVars, histVars, ocrVars>>

\* The response holds no candidate: line 57 raises after line 56 has opened
\* the .md file, which the with block closes, empty.
write_md_fails ==
    /\ pc = "write_md"
    /\ LET md == MdPath(join(directory, filename))
       IN  /\ fs' = OpenWrite(fs, md)
           /\ written' = written \cup {md}
    /\ Raise("response")
    /\ UNCHANGED <<handles, stdout, trace, retVars, argVars, mainVars, loopVars,
                   saveVars, histVars, ocrVars>>

\* process_files falls off its end: it returns None.
process_files_end ==
    /\ pc = "ocr_loop" /\ todo = {}
    /\ result' = PyNone
    /\ pc' = "ocr_return"
    /\ UNCHANGED <<ioVars, ret, text, execution_time, argVars, mainVars,
                   loopVars, saveVars, histVars, ocrVars>>

\* measure_time.wrapper, lines 19-21.
ocr_wrapper_return ==
    /\ pc = "ocr_return"
    /\ \E t \in 0..MaxTime : ret' = ocr_measure_time(result, t)
    /\ pc' = "ocr_unpack"
    /\ UNCHANGED <<ioVars, result, text, execution_time, argVars, mainVars,
                   loopVars, saveVars, histVars, ocrVars>>

\* __main__, lines 74-75: the pair is unpacked and the time printed.
ocr_unpack ==
    /\ pc = "ocr_unpack"
    /\ IF CanUnpack2(ret)
       THEN /\ text' = ret.val[1]
            /\ execution_time' = ret.val[2]
            /\ stdout' = Append(stdout, <<"Execution time">>)
            /\ pc' = "done"
            /\ UNCHANGED failure
       ELSE /\ Raise("unpack")
            /\ UNCHANGED <<text, execution_time, stdout>>
    /\ UNCHANGED <<fs, handles, trace, written, result, ret, argVars, mainVars,
                   loopVars, saveVars, histVars, ocrVars>>

\* ----------------------------------------------------------- behaviours
Next ==
    \/ main_expand \/ main_dispatch \/ main_unknown \/ wrapper_call
    \/ pdf_open \/ pdf_open_fails \/ read_page \/ read_page_fails \/ pdf_close
    \/ save_sections \/ save_open \/ save_write \/ extract_return \/ main_unpack
    \/ convert_pdf_to_images \/ convert_from_path \/ convert_from_path_fails
    \/ main_return \/ rerun
    \/ ocr_main \/ ocr_wrapper_call \/ find_image_file \/ no_image_file
    \/ list_txt \/ next_txt \/ upload_file \/ upload_file_fails \/ read_txt
    \/ generate_content \/ generate_content_fails \/ write_md \/ write_md_fails
    \/ process_files_end \/ ocr_wrapper_return \/ ocr_unpack

Spec == Init /\ [][Next]_vars

\* ------------------------------------------------- vocabulary of the claims
Min(a, b) == IF a < b THEN a ELSE b

RECURSIVE Calls(_, _)
\* Who was called by the events of kind ev, in order.
Calls(tr, ev) ==
    IF tr = <<>> THEN <<>>
    ELSE (IF Head(tr).ev = ev THEN <<Head(tr).who>> ELSE <<>>) \o Calls(Tail(tr), ev)

RECURSIVE ClassesOf(_)
\* The classes of the registered names of a list, in order.
ClassesOf(names) ==
    IF names = <<>> THEN <<>>
    ELSE (IF Head(names) \in {"PyPDF2", "PDFPlumber"}
          THEN <<IF Head(names) = "PyPDF2" THEN "PyPDF2Extractor"
                 ELSE "PDFPlumberExtractor">>
          ELSE <<>>) \o ClassesOf(Tail(names))

RECURSIVE UnknownOf(_)
\* The unregistered names of a list, in order.
UnknownOf(names) ==
    IF names = <<>> THEN <<>>
    ELSE (IF Head(names) \in {"PyPDF2", "PDFPlumber"} THEN <<>> ELSE <<Head(names)>>)
         \o UnknownOf(Tail(names))

RECURSIVE Printed(_, _)
\* What the printed lines of kind msg name, in order.
Printed(out, msg) ==
    IF out = <<>> THEN <<>>
    ELSE (IF Head(out)[1] = msg THEN <<Head(out)[2]>> ELSE <<>>)
         \o Printed(Tail(out), msg)

\* The names main's loop has reached so far.
Handled ==
    IF pc = "for" THEN SubSeq(exts, 1, idx - 1)
    ELSE SubSeq(exts, 1, Min(idx, Len(exts)))

InExtractPdf == script = "extract_pdf"
InOcr == script = "gemini_ocr"

\* All N page texts of a library, in page order.
AllPages(lib) == [k \in 1..numPages |-> <<lib, k>>]

\* The documented nested path, written out for the inputs of the model.
ExpectedBase == IF file_path = <<"a", DOT, "pdf">> THEN <<"a">> ELSE <<"a", DOT, "b">>
ExpectedOut ==
    IF output_dir = <<DOT>> THEN <<DOT, SEP>>
    ELSE IF output_dir = <<"out">> THEN <<"out", SEP>>
    ELSE <<"o", SEP, "p", SEP>>
ExpectedPath(k, name, ext) ==
    ExpectedOut \o ExpectedBase
        \o <<SEP, Digits[k], SEP, "section", "_", Digits[k], "_", name, DOT, ext>>
ExtractorClassNames == {"PyPDF2Extractor", "PDFPlumberExtractor"}

\* Entries directly inside directory d.
Inside(x, d) ==
    /\ Len(x) > Len(d) + 1
    /\ SubSeq(x, 1, Len(d) + 1) = d \o <<SEP>>
    /\ RFind(x, SEP, Len(x)) = Len(d) + 1
SubDirs(d) == {x \in fs.dirs : Inside(x, d)}
FilesIn(d, ext) == {q \in DOMAIN fs.files : Inside(q, d) /\ EndsWith(q, <<DOT, ext>>)}
ExpectedParent == ExpectedOut \o ExpectedBase

\* ------------------------------------------------------------------ C1
\* C1: in both extractors the accumulated sections are, at every step of the
\* page loop, the texts of the first pages in page order and never more than
\* the page count; what extract_text returns, and main receives, is exactly
\* one section per page, entry k being the text of page k.
C1_SectionsArePages ==
    InExtractPdf =>
      /\ pc \in {"read", "save_sections", "save_loop", "save_write", "unpack"} =>
           /\ Len(sections) <= numPages
           /\ sections = SubSeq(AllPages(Library(extractor)), 1, Len(sections))
      /\ pc = "read" => Len(sections) = page - 1
      /\ pc \in {"save_sections", "unpack"} => Len(sections) = numPages
      /\ pc = "unpack" =>
           /\ result.tag = "list"
           /\ result.val = AllPages(Library(extractor))
      /\ (pc = "for" /\ idx > 1 /\ exts[idx - 1] \in DOMAIN extractor_classes) =>
           /\ text.tag = "list"
           /\ Len(text.val) = numPages
           /\ \A k \in 1..numPages :
                text.val[k] = <<Library(extractor_classes[exts[idx - 1]]), k>>

C1_Witness ==
    /\ pc = "unpack" /\ numPages >= 2
    /\ extractor = "PDFPlumberExtractor"
    /\ Len(result.val) = numPages
    /\ ClassesOf(Handled) = <<"PyPDF2Extractor", "PDFPlumberExtractor">>

\* ------------------------------------------------------------------ C2
OnlyUnknownNames ==
    /\ InExtractPdf /\ pc # "main"
    /\ \A k \in 1..Len(exts) : exts[k] \notin {"PyPDF2", "PDFPlumber"}

\* C2 as stated: a run whose extractor names are not registered writes no
\* file, the files on disk stay those before the run.
C2_UnknownWritesNothing ==
    OnlyUnknownNames => written = {} /\ DOMAIN fs.files = DOMAIN fsStart.files

\* C2, amended: unregistered names never crash the run and are only reported,
\* one "Unknown extractor" line each in list order; a run of only such names
\* invokes no extractor and writes no text file, its only files are the page
\* images of convert_pdf_to_images, one .png per page once it completes.
C2_UnknownSkipped ==
    InExtractPdf =>
      /\ failure \in {"none", "open", "parse", "convert"}
      /\ Printed(stdout, "Unknown extractor") = UnknownOf(Handled)
      /\ OnlyUnknownNames =>
           /\ failure \in {"none", "convert"}
           /\ Calls(trace, "wrapper") = <<>>
           /\ Len(stdout) = Len(Handled)
           /\ \A q \in written : EndsWith(q, <<DOT, "png">>)
           /\ \A q \in DOMAIN fs.files \ DOMAIN fsStart.files :
                EndsWith(q, <<DOT, "png">>)
           /\ pc = "done" =>
                /\ Cardinality(written) = numPages
                /\ Len(stdout) = Len(exts)

C2_Witness ==
    /\ OnlyUnknownNames /\ pc = "done" /\ runs = 1
    /\ Len(exts) = 2 /\ numPages >= 2
    /\ Cardinality(DOMAIN fs.files \ DOMAIN fsStart.files) = numPages

\* ------------------------------------------------------------------ C3
\* C3: once main has completed on an input, completing it again on the same
\* arguments leaves the file system exactly as the first run left it: the same
\* directories, the same files, the same content.
C3_RerunIdempotent ==
    (InExtractPdf /\ runs >= 2 /\ pc = "done") => fs = fsFirst

C3_Witness ==
    /\ InExtractPdf /\ runs = 2 /\ pc = "done"
    /\ numPages >= 2
    /\ ClassesOf(exts) = <<"PyPDF2Extractor", "PDFPlumberExtractor">>
    /\ Cardinality(written) = 3 * numPages

\* ------------------------------------------------------------------ C4
\* Where the sections of the names handled so far, and after the loop the
\* page images, belong.
ExpectedTextFiles(names) ==
    {ExpectedPath(k, ClassesOf(names)[c], "txt") :
        k \in 1..numPages, c \in 1..Len(ClassesOf(names))}
ExpectedImageFiles == {ExpectedPath(k, "pdf2image", "png") : k \in 1..numPages}

\* C4 as stated: every file written lies at
\* <output_dir>/<basename>/<k>/section_<k>_<ClassName>.txt or .png with
\* ClassName the name of a class of the program.
C4_PathNamesAClass ==
    InExtractPdf =>
      \A q \in written :
        \E k \in 1..numPages, cls \in ExtractorClassNames \cup {"PDFExtractor"},
           ext \in {"txt", "png"} :
          q = ExpectedPath(k, cls, ext)

\* C4, amended: every file written lies at
\* <output_dir>/<basename>/<k>/section_<k>_<name>.<ext>, k the 1-based page
\* number, where a .txt file carries the name of the extractor class that
\* produced the section and a .png file the literal process name pdf2image;
\* every section produced has exactly that one file, holding the section, and
\* nothing is written anywhere else.
C4_NestedPaths ==
    InExtractPdf =>
      /\ \A q \in written :
           \E k \in 1..numPages :
             \/ \E cls \in ExtractorClassNames : q = ExpectedPath(k, cls, "txt")
             \/ q = ExpectedPath(k, "pdf2image", "png")
      /\ DOMAIN fs.files \subseteq
           DOMAIN fsStart.files \cup ExpectedTextFiles(exts) \cup ExpectedImageFiles
      /\ pc = "unpack" =>
           \A k \in 1..numPages :
             /\ ExpectedPath(k, extractor, "txt") \in written
             /\ fs.files[ExpectedPath(k, extractor, "txt")]
                  = <<<<Library(extractor), k>>>>
      /\ pc = "done" =>
           /\ written = ExpectedTextFiles(exts) \cup ExpectedImageFiles
           /\ \A q \in ExpectedImageFiles : Len(fs.files[q]) = 1

C4_Witness ==
    /\ InExtractPdf /\ pc = "done" /\ numPages >= 2
    /\ file_path = <<"in", SEP, "a", DOT, "b", DOT, "pdf">>
    /\ output_dir = <<"o", SEP, "p", SEP>>
    /\ ExpectedPath(2, "PDFPlumberExtractor", "txt") \in written
    /\ ExpectedPath(2, "pdf2image", "png") \in written

\* ------------------------------------------------------------------ C5
BothExtractors ==
    /\ InExtractPdf /\ runs = 1 /\ pc = "done"
    /\ {exts[k] : k \in 1..Len(exts)} \cap {"PyPDF2", "PDFPlumber"}
         = {"PyPDF2", "PDFPlumber"}

\* C5 as stated: after both extractors have processed an N-page PDF there are
\* N page subdirectories, each holding exactly one text file.
C5_OneTextFilePerPage ==
    BothExtractors =>
      /\ Cardinality(SubDirs(ExpectedParent)) = numPages
      /\ \A d \in SubDirs(ExpectedParent) : Cardinality(FilesIn(d, "txt")) = 1

\* C5, amended: after both extractors have processed an N-page PDF into an
\* empty output directory there are exactly N page subdirectories, 1..N, and
\* each holds exactly two text files, one per extractor class, and the page's
\* one image.
C5_TwoTextFilesPerPage ==
    BothExtractors =>
      /\ SubDirs(ExpectedParent)
           = {ExpectedParent \o <<SEP, Digits[k]>> : k \in 1..numPages}
      /\ \A k \in 1..numPages :
           /\ FilesIn(ExpectedParent \o <<SEP, Digits[k]>>, "txt")
                = {ExpectedPath(k, cls, "txt") : cls \in ExtractorClassNames}
           /\ Cardinality(FilesIn(ExpectedParent \o <<SEP, Digits[k]>>, "txt")) = 2
           /\ FilesIn(ExpectedParent \o <<SEP, Digits[k]>>, "png")
                = {ExpectedPath(k, "pdf2image", "png")}

C5_Witness ==
    /\ BothExtractors /\ numPages >= 2
    /\ Cardinality(SubDirs(ExpectedParent)) = numPages
    /\ extractors = <<"PyPDF2", "PDFPlumber">>

\* ------------------------------------------------------------------ C6
\* C6: a failure to open or parse the PDF inside an extractor ends the run
\* there: nothing runs afterwards (no later extractor, no image conversion),
\* the failing extractor was called once, it has written nothing, and the file
\* system is as it was when that extractor was called, so the files of the
\* extractors before it are untouched.
C6_FailurePropagates ==
    (InExtractPdf /\ failure \in {"open", "parse"}) =>
      /\ pc = "crashed"
      /\ ~ENABLED Next
      /\ handles = {}
      /\ fs = fsAtCall
      /\ trace[Len(trace)] = [ev |-> "extract_text", who |-> extractor]
      /\ idx <= Len(exts) /\ extractor = ClassesOf(<<exts[idx]>>)[1]
      /\ Calls(trace, "wrapper") = ClassesOf(SubSeq(exts, 1, idx))
      /\ Calls(trace, "extract_text") = ClassesOf(SubSeq(exts, 1, idx))
      /\ Calls(trace, "convert_pdf_to_images") = <<>>

C6_Witness ==
    /\ InExtractPdf /\ failure = "parse" /\ pc = "crashed"
    /\ idx = 2 /\ Len(exts) = 3 /\ page = 2
    /\ Cardinality(written) = numPages /\ numPages >= 2

\* ------------------------------------------------------------------ C7
\* C7: main is sequential.  Never more than one file handle is open; the
\* extractors are called one after the other in list order; an extractor has
\* read every page and closed the PDF before it saves, each section file is
\* closed before the next is opened; convert_pdf_to_images is called once,
\* after the last name of the list, and a completed run has called it.
C7_Sequential ==
    InExtractPdf =>
      /\ Cardinality(handles) <= 1
      /\ Calls(trace, "wrapper") = ClassesOf(Handled)
      /\ pc \in {"save_sections", "save_loop", "save_write", "unpack"} =>
           file_path \notin handles
      /\ (pc \in {"save_sections", "save_loop", "save_write"} /\ saving.ext # "png") =>
           Len(sections) = numPages
      /\ pc = "read" => handles = {file_path}
      /\ pc = "save_write" =>
           handles = {ExpectedPath(i, saving.process_name, saving.ext)}
      /\ pc \notin {"read", "save_write"} => handles = {}
      /\ Len(Calls(trace, "convert_pdf_to_images")) <= 1
      /\ Calls(trace, "convert_pdf_to_images") # <<>> =>
           /\ idx = Len(exts) + 1
           /\ trace[Len(trace)].ev = "convert_pdf_to_images"
      /\ pc = "done" => Len(Calls(trace, "convert_pdf_to_images")) = 1

C7_Witness ==
    /\ InExtractPdf /\ pc = "save_write" /\ saving.ext = "txt" /\ i = 2
    /\ idx = 2 /\ Cardinality(handles) = 1 /\ Cardinality(written) = numPages + 2

\* ------------------------------------------------------------------ C8
\* C8: what a measure_time wrapper returns is always a pair of the wrapped
\* function's own return value and a time, so both callers can unpack it:
\* extract_text gives main its sections, process_files gives __main__ None
\* whether or not the directory holds a PNG; the wrapper has called the
\* wrapped function once per call of its own.
C8_WrapperReturnsPair ==
    /\ failure # "unpack"
    /\ pc \in {"unpack", "ocr_unpack"} =>
         /\ ret.tag = "tuple" /\ Len(ret.val) = 2
         /\ ret.val[1].tag = result.tag /\ ret.val[1].val = result.val
         /\ ret.val[2] \in 0..MaxTime
    /\ pc = "unpack" => result.tag = "list" /\ result.val = sections
    /\ pc = "ocr_unpack" => result.tag = "None"
    /\ (InExtractPdf /\ pc = "for" /\ idx > 1
          /\ exts[idx - 1] \in {"PyPDF2", "PDFPlumber"}) =>
         text.tag = "list" /\ text.val = sections
    /\ (InOcr /\ pc = "done") => text.tag = "None"
    /\ LET w == IF InOcr THEN Calls(trace, "process_files")
                ELSE Calls(trace, "extract_text")
       IN  IF pc \in {"wrapper", "ocr_wrapper"}
           THEN Len(w) = Len(Calls(trace, "wrapper")) - 1
           ELSE w = Calls(trace, "wrapper")

C8_Witness ==
    /\ InOcr /\ pc = "done" /\ image_path # NoPath
    /\ Len(uploads) >= 2
    /\ text.tag = "None" /\ execution_time = MaxTime

\* ------------------------------------------------------------------ C9
\* The .md file documented for each text file name of the model's directory:
\* the same stem (pathlib's: all of ".txt" is stem) with the suffix .md.
ExpectedMd(n) ==
    IF n = <<"a", DOT, "txt">> THEN <<"d", SEP, "a", DOT, "md">>
    ELSE IF n = <<"b", DOT, "c", DOT, "txt">> THEN <<"d", SEP, "b", DOT, "c", DOT, "md">>
    ELSE <<"d", SEP, DOT, "txt", DOT, "md">>
InitialNames == {SubSeq(q, 3, Len(q)) : q \in DOMAIN fsStart.files}
InitialTxt == {n \in InitialNames : n[Len(n)] = "txt" /\ n[Len(n) - 1] = DOT}
InitialPng == {n \in InitialNames : n[Len(n)] = "png" /\ n[Len(n) - 1] = DOT}
CountFor(calls, n) == Cardinality({k \in 1..Len(calls) : calls[k].for = n})

\* C9: without a .png in the directory process_files uploads nothing,
\* generates nothing and writes nothing.  Otherwise a run that completes has,
\* for every .txt file of the directory, made one upload and one generation
\* call and written the one .md file of the same stem beside it, and nothing
\* else; every call used the one PNG that find_image_file returned; and at
\* every point the .txt and .png files are those, unchanged, of the start.
C9_ProcessFiles ==
    InOcr =>
      /\ InitialPng = {} =>
           /\ uploads = <<>> /\ generations = <<>>
           /\ written = {} /\ fs = fsStart
      /\ \A q \in DOMAIN fsStart.files :
           q[Len(q)] \in {"txt", "png"} =>
             q \in DOMAIN fs.files /\ fs.files[q] = fsStart.files[q]
      /\ \A q \in DOMAIN fs.files \ DOMAIN fsStart.files : q[Len(q)] = "md"
      /\ \A k \in 1..Len(uploads) : uploads[k].path = image_path
      /\ \A k \in 1..Len(generations) : generations[k].image = image_path
      /\ image_path # NoPath => SubSeq(image_path, 3, Len(image_path)) \in InitialPng
      /\ (pc = "done" /\ InitialPng # {}) =>
           /\ Len(uploads) = Cardinality(InitialTxt)
           /\ Len(generations) = Cardinality(InitialTxt)
           /\ written = {ExpectedMd(n) : n \in InitialTxt}
           /\ \A n \in InitialTxt :
                /\ CountFor(uploads, n) = 1
                /\ CountFor(generations, n) = 1
                /\ Len(fs.files[ExpectedMd(n)]) = 1

C9_Witness ==
    /\ InOcr /\ pc = "done"
    /\ Cardinality(InitialPng) = 2 /\ Cardinality(InitialTxt) = 3
    /\ <<"a", DOT, "md">> \in InitialNames
    /\ Cardinality(written) = 3

\* ----------------------------------------------------------------- C10
\* C10: on a default run (extractors = ['all']) every name of the expanded
\* list is registered, so exactly the registered extractors are called, once
\* each, and no "Unknown extractor" line is printed.
C10_DefaultRunAllRegistered ==
    (InExtractPdf /\ extractors = <<"all">> /\ pc # "main") =>
      /\ \A k \in 1..Len(Handled) : Handled[k] \in {"PyPDF2", "PDFPlumber"}
      /\ Printed(stdout, "Unknown extractor") = <<>>
      /\ pc = "done" =>
           Calls(trace, "wrapper") = <<"PyPDF2Extractor", "PDFPlumberExtractor">>
====
